---- MODULE Spec2Model ----
(***************************************************************************)
(* Model of the Industrial HR dashboard pipeline of ihr_app_final.py:      *)
(* load_data (comma parse, tab fallback, header strip), the cached         *)
(* process_data (validation, numeric coercion, derived columns, keyword    *)
(* classification), main's empty-table guard and generate_insights.        *)
(*                                                                         *)
(* Text is a sequence of one-character strings.  A value is a record      *)
(* [t, n, d, s]: a string s (t = "str"), the finite number n/d (t = "num", *)
(* d > 0, lowest terms), a missing value / not-a-number (t = "nan") or an  *)
(* infinity (t = "inf", "-inf").  Numbers are exact rationals: the         *)
(* rounding of IEEE doubles is not modelled.                               *)
(***************************************************************************)
EXTENDS Integers, Sequences, FiniteSets, TLC

VARIABLES pc, uploaded, df, cache, insights, ui, calls, runs, prev

vars == <<pc, uploaded, df, cache, insights, ui, calls, runs, prev>>

(***************************************************************************)
(* Bounds of the model.                                                    *)
(***************************************************************************)
MaxRuns == 2
MaxRows == 2
MaxCount == 2
MaxFrags == 2

(***************************************************************************)
(* Text helpers.                                                           *)
(***************************************************************************)
RECURSIVE Concat(_)
Concat(ss) == IF ss = <<>> THEN <<>> ELSE Head(ss) \o Concat(Tail(ss))

\* the sequence f, enumerated
Tuple(f) == SubSeq(f, 1, Len(f))

\* str.lower() on one ASCII character
LowerChar(c) ==
  CASE c = "A" -> "a" [] c = "B" -> "b" [] c = "C" -> "c" [] c = "D" -> "d"
    [] c = "E" -> "e" [] c = "F" -> "f" [] c = "G" -> "g" [] c = "H" -> "h"
    [] c = "I" -> "i" [] c = "J" -> "j" [] c = "K" -> "k" [] c = "L" -> "l"
    [] c = "M" -> "m" [] c = "N" -> "n" [] c = "O" -> "o" [] c = "P" -> "p"
    [] c = "Q" -> "q" [] c = "R" -> "r" [] c = "S" -> "s" [] c = "T" -> "t"
    [] c = "U" -> "u" [] c = "V" -> "v" [] c = "W" -> "w" [] c = "X" -> "x"
    [] c = "Y" -> "y" [] c = "Z" -> "z" [] OTHER -> c

\* name.lower()
Lower(s) == Tuple([i \in 1..Len(s) |-> LowerChar(s[i])])

\* Python's `x in name` on strings: x occurs as a contiguous substring
Contains(name, x) ==
  \E i \in 1..(Len(name) - Len(x) + 1) : SubSeq(name, i, i + Len(x) - 1) = x

(***************************************************************************)
(* Parsed values.                                                          *)
(***************************************************************************)
Str(s) == [t |-> "str", n |-> 0, d |-> 1, s |-> s]
NaN == [t |-> "nan", n |-> 0, d |-> 1, s |-> <<>>]
PosInf == [t |-> "inf", n |-> 1, d |-> 1, s |-> <<>>]
NegInf == [t |-> "-inf", n |-> -1, d |-> 1, s |-> <<>>]

Abs(x) == IF x < 0 THEN -x ELSE x

RECURSIVE GCD(_, _)
GCD(a, b) == IF b = 0 THEN a ELSE GCD(b, a % b)

\* the finite number n/d (d # 0), in lowest terms with a positive denominator
Rat(n, d) ==
  LET g == GCD(Abs(n), Abs(d))
      sg == IF d < 0 THEN -1 ELSE 1
  IN [t |-> "num", n |-> sg * (n \div g), d |-> Abs(d) \div g, s |-> <<>>]

Num(n) == Rat(n, 1)

IsFinite(v) == v.t = "num"
IsZero(v) == v.t = "num" /\ v.n = 0
IsNeg(v) == v.t = "-inf" \/ (v.t = "num" /\ v.n < 0)
IsPos(v) == v.t = "inf" \/ (v.t = "num" /\ v.n > 0)
\* a >= 0 and a <= b on floats (any comparison with not-a-number is false)
GeZero(v) == IsPos(v) \/ IsZero(v)
Less(a, b) ==
  /\ a.t # "nan" /\ b.t # "nan"
  /\ \/ a.t = "-inf" /\ b.t # "-inf"
     \/ b.t = "inf" /\ a.t # "inf"
     \/ a.t = "num" /\ b.t = "num" /\ a.n * b.d < b.n * a.d

\* float addition
Add(a, b) ==
  IF a.t = "nan" \/ b.t = "nan" THEN NaN
  ELSE IF a.t = "num" /\ b.t = "num" THEN Rat(a.n * b.d + b.n * a.d, a.d * b.d)
  ELSE IF a.t = "num" THEN b
  ELSE IF b.t = "num" THEN a
  ELSE IF a.t = b.t THEN a ELSE NaN

\* float multiplication by a finite positive constant c = cn/cd
Scale(a, cn, cd) == IF a.t = "num" THEN Rat(a.n * cn, a.d * cd) ELSE a

\* float (true) division as numpy does it: a nonzero number over zero is an
\* infinity, zero over zero is not-a-number, and none of them raises
Div(a, b) ==
  IF a.t = "nan" \/ b.t = "nan" THEN NaN
  ELSE IF a.t = "num" /\ b.t = "num" THEN
    IF b.n # 0 THEN Rat(a.n * b.d, a.d * b.n)
    ELSE IF a.n > 0 THEN PosInf ELSE IF a.n < 0 THEN NegInf ELSE NaN
  ELSE IF a.t = "num" THEN Num(0)
  ELSE IF b.t # "num" THEN NaN
  ELSE IF (a.t = "inf") = (b.n >= 0) THEN PosInf ELSE NegInf

(***************************************************************************)
(* pandas helpers: read_csv's type inference, to_numeric, fillna, replace. *)
(***************************************************************************)
Range(f) == {f[i] : i \in DOMAIN f}

IsDigit(c) == c \in {"0", "1", "2", "3", "4", "5", "6", "7", "8", "9"}

DigitVal(c) ==
  CASE c = "0" -> 0 [] c = "1" -> 1 [] c = "2" -> 2 [] c = "3" -> 3 [] c = "4" -> 4
    [] c = "5" -> 5 [] c = "6" -> 6 [] c = "7" -> 7 [] c = "8" -> 8 [] c = "9" -> 9

RECURSIVE DigitsValue(_)
DigitsValue(s) ==
  IF s = <<>> THEN 0
  ELSE DigitsValue(SubSeq(s, 1, Len(s) - 1)) * 10 + DigitVal(s[Len(s)])

\* the text parses as a decimal integer: an optional sign, then digits
IsIntLiteral(s) ==
  LET body == IF Len(s) > 0 /\ s[1] \in {"-", "+"} THEN Tail(s) ELSE s
  IN Len(body) > 0 /\ \A i \in 1..Len(body) : IsDigit(body[i])

IntValue(s) ==
  IF s[1] = "-" THEN -DigitsValue(Tail(s))
  ELSE IF s[1] = "+" THEN DigitsValue(Tail(s))
  ELSE DigitsValue(s)

\* pd.read_csv on text cells: an empty cell is missing; a column whose
\* other cells are all numbers is numeric; any other column keeps strings
read_csv(parsed) ==
  LET numeric(j) == \A r \in 1..Len(parsed.rows) :
        parsed.rows[r][j] = <<>> \/ IsIntLiteral(parsed.rows[r][j])
      cell(r, j) == LET x == parsed.rows[r][j] IN
        IF x = <<>> THEN NaN
        ELSE IF numeric(j) THEN Num(IntValue(x))
        ELSE Str(x)
  IN [columns |-> parsed.columns,
      rows |-> Tuple([r \in 1..Len(parsed.rows) |->
                 Tuple([j \in 1..Len(parsed.columns) |-> cell(r, j)])])]

\* pd.to_numeric(..., errors='coerce') on one value
to_numeric(v) ==
  IF v.t = "str" THEN (IF IsIntLiteral(v.s) THEN Num(IntValue(v.s)) ELSE NaN)
  ELSE v

\* .fillna(0) on one value
fillna0(v) == IF v.t = "nan" THEN Num(0) ELSE v

\* .replace([np.inf, -np.inf], 0) on one value
replace_inf0(v) == IF v.t \in {"inf", "-inf"} THEN Num(0) ELSE v

\* df.columns.str.strip() on one column name (a sequence of tokens, " " being
\* a whitespace token)
RECURSIVE lstrip(_)
lstrip(name) ==
  IF name # <<>> /\ Head(name) = " " THEN lstrip(Tail(name)) ELSE name

RECURSIVE rstrip(_)
rstrip(name) ==
  IF name # <<>> /\ name[Len(name)] = " "
  THEN rstrip(SubSeq(name, 1, Len(name) - 1)) ELSE name

strip(name) == rstrip(lstrip(name))

strip_columns_none(columns) == columns

strip_columns(columns) == Tuple([i \in 1..Len(columns) |-> strip(columns[i])])

\* pd.DataFrame()
EmptyDF == [columns |-> <<>>, rows |-> <<>>]

IsEmpty_never(d) == FALSE

\* df.empty
IsEmpty(d) == Len(d.columns) = 0 \/ Len(d.rows) = 0

HasCol(d, c) == \E i \in 1..Len(d.columns) : d.columns[i] = c

ColIndex(d, c) == CHOOSE i \in 1..Len(d.columns) : d.columns[i] = c

\* df[c] as the sequence of its values
Col(d, c) ==
  LET i == ColIndex(d, c) IN Tuple([r \in 1..Len(d.rows) |-> d.rows[r][i]])

\* df[c] = vals: replaces the column when it exists, appends it otherwise
SetCol(d, c, vals) ==
  IF HasCol(d, c)
  THEN LET i == ColIndex(d, c)
       IN [columns |-> d.columns,
           rows |-> Tuple([r \in 1..Len(d.rows) |-> [d.rows[r] EXCEPT ![i] = vals[r]]])]
  ELSE [columns |-> Append(d.columns, c),
        rows |-> Tuple([r \in 1..Len(d.rows) |-> Append(d.rows[r], vals[r])])]

(***************************************************************************)
(* classify_industry (process_data's inner function).                      *)
(***************************************************************************)
AgricultureKeys ==
  << <<"c","r","o","p">>, <<"a","n","i","m","a","l">>, <<"f","a","r","m">>,
     <<"a","g","r","i","c","u","l","t","u","r","e">> >>
ManufacturingKeys ==
  << <<"m","a","n","u","f","a","c","t","u","r">>, <<"f","a","c","t","o","r","y">>,
     <<"p","r","o","d","u","c","t","i","o","n">> >>
RetailKeys ==
  << <<"r","e","t","a","i","l">>, <<"t","r","a","d","e">>, <<"s","h","o","p">> >>
PoultryKeys ==
  << <<"p","o","u","l","t","r","y">>, <<"c","a","t","t","l","e">>,
     <<"l","i","v","e","s","t","o","c","k">> >>
MiningKeys ==
  << <<"m","i","n","i","n","g">>, <<"q","u","a","r","r","y">>, <<"c","o","a","l">> >>

\* any(x in name for x in keys)
AnyIn(keys, name) == \E k \in 1..Len(keys) : Contains(name, keys[k])

classify_industry_swapped(name) ==
  IF name.t # "str" THEN "Other"
  ELSE LET low == Lower(name.s) IN
    IF AnyIn(ManufacturingKeys, low) THEN "Manufacturing"
    ELSE IF AnyIn(AgricultureKeys, low) THEN "Agriculture"
    ELSE IF AnyIn(RetailKeys, low) THEN "Retail & Trade"
    ELSE IF AnyIn(PoultryKeys, low) THEN "Poultry & Livestock"
    ELSE IF AnyIn(MiningKeys, low) THEN "Mining"
    ELSE "Other"

classify_industry(name) ==
  IF name.t # "str" THEN "Other"
  ELSE LET low == Lower(name.s) IN
    IF AnyIn(AgricultureKeys, low) THEN "Agriculture"
    ELSE IF AnyIn(ManufacturingKeys, low) THEN "Manufacturing"
    ELSE IF AnyIn(RetailKeys, low) THEN "Retail & Trade"
    ELSE IF AnyIn(PoultryKeys, low) THEN "Poultry & Livestock"
    ELSE IF AnyIn(MiningKeys, low) THEN "Mining"
    ELSE "Other"

(***************************************************************************)
(* process_data: validation, coercion, derived columns, classification.    *)
(***************************************************************************)
NIC_Name == <<"NIC_Name">>
Main_Workers_Total_Persons == <<"Main_Workers_Total_Persons">>
Marginal_Workers_Total_Persons == <<"Marginal_Workers_Total_Persons">>
Main_Workers_Total_Females == <<"Main_Workers_Total_Females">>
Marginal_Workers_Total_Females == <<"Marginal_Workers_Total_Females">>
Main_Workers_Urban_Persons == <<"Main_Workers_Urban_Persons">>
Marginal_Workers_Urban_Persons == <<"Marginal_Workers_Urban_Persons">>
Main_Workers_Rural_Persons == <<"Main_Workers_Rural_Persons">>
Marginal_Workers_Rural_Persons == <<"Marginal_Workers_Rural_Persons">>
Main_Workers_Total_Males == <<"Main_Workers_Total_Males">>
Marginal_Workers_Total_Males == <<"Marginal_Workers_Total_Males">>
Total_Workers == <<"Total Workers">>
Female_Ratio == <<"Female Ratio">>
Urban_Ratio == <<"Urban Ratio">>
Industry_Category == <<"Industry Category">>

required_cols ==
  << NIC_Name, Main_Workers_Total_Persons, Marginal_Workers_Total_Persons,
     Main_Workers_Total_Females, Marginal_Workers_Total_Females,
     Main_Workers_Urban_Persons, Marginal_Workers_Urban_Persons,
     Main_Workers_Rural_Persons, Marginal_Workers_Rural_Persons,
     Main_Workers_Total_Males, Marginal_Workers_Total_Males >>

missing_first_only(d) ==
  LET all == SelectSeq(required_cols, LAMBDA c : ~HasCol(d, c))
  IN IF all = <<>> THEN <<>> ELSE <<Head(all)>>

\* missing = [col for col in required_cols if col not in df.columns]
missing_columns(d) == SelectSeq(required_cols, LAMBDA c : ~HasCol(d, c))

coerce_no_fillna(v) == to_numeric(v)

\* pd.to_numeric(df[col], errors='coerce').fillna(0) on one value
coerce(v) == fillna0(to_numeric(v))

\* for col in required_cols[1:]: df[col] = pd.to_numeric(...).fillna(0)
RECURSIVE coerce_columns(_, _)
coerce_columns(d, cols) ==
  IF cols = <<>> THEN d
  ELSE LET old == Col(d, Head(cols))
       IN coerce_columns(
            SetCol(d, Head(cols), Tuple([r \in 1..Len(old) |-> coerce(old[r])])),
            Tail(cols))

\* df['Main_Workers_Total_Persons'] + df['Marginal_Workers_Total_Persons']
total_workers(main, marginal) == Add(main, marginal)

ratio_unguarded(part, total) == Div(part, total)

\* (part / df['Total Workers']) followed by .replace([inf, -inf], 0).fillna(0)
ratio(part, total) == fillna0(replace_inf0(Div(part, total)))

\* the body of process_data after the missing-column check
transform(d) ==
  LET n == Len(d.rows)
      d1 == coerce_columns(d, Tail(required_cols))
      main == Col(d1, Main_Workers_Total_Persons)
      marginal == Col(d1, Marginal_Workers_Total_Persons)
      d2 == SetCol(d1, Total_Workers,
                   Tuple([r \in 1..n |-> total_workers(main[r], marginal[r])]))
      total == Col(d2, Total_Workers)
      main_f == Col(d2, Main_Workers_Total_Females)
      marginal_f == Col(d2, Marginal_Workers_Total_Females)
      d3 == SetCol(d2, Female_Ratio,
                   Tuple([r \in 1..n |-> ratio(Add(main_f[r], marginal_f[r]), total[r])]))
      main_u == Col(d3, Main_Workers_Urban_Persons)
      marginal_u == Col(d3, Marginal_Workers_Urban_Persons)
      d4 == SetCol(d3, Urban_Ratio,
                   Tuple([r \in 1..n |-> ratio(Add(main_u[r], marginal_u[r]), total[r])]))
      names == Col(d4, NIC_Name)
  IN SetCol(d4, Industry_Category,
            Tuple([r \in 1..n |-> Str(<<classify_industry(names[r])>>)]))

\* the uncached body of process_data: the returned table and the st.error
\* elements it emits
process_data_body(d) ==
  LET missing == missing_columns(d)
  IN IF missing # <<>>
     THEN [ret |-> EmptyDF, msgs |-> <<[w |-> "st.error", v |-> missing]>>]
     ELSE [ret |-> transform(d), msgs |-> <<>>]

cache_key_shape(d) == [columns |-> d.columns, rows |-> Len(d.rows)]

\* @st.cache_data: the key is a hash of the argument's content
cache_key(d) == d

\* the cached process_data: on a hit the stored return value and the stored
\* st.error elements are replayed, on a miss the body runs and is stored
process_data(d, c) ==
  LET k == cache_key(d)
      out == IF k \in DOMAIN c THEN c[k] ELSE process_data_body(d)
  IN [ret |-> out.ret, msgs |-> out.msgs,
      cache |-> IF k \in DOMAIN c THEN c ELSE c @@ (k :> out)]

(***************************************************************************)
(* generate_insights.                                                      *)
(***************************************************************************)
\* the six labels in the order Python sorts them (groupby sorts its keys)
sorted_labels ==
  << "Agriculture", "Manufacturing", "Mining", "Other",
     "Poultry & Livestock", "Retail & Trade" >>

Labels == Range(sorted_labels)

\* the 'Industry Category' label of each row
Category(d) ==
  LET c == Col(d, Industry_Category) IN Tuple([r \in 1..Len(c) |-> c[r].s[1]])

RECURSIVE first_seen(_, _)
first_seen(cats, seen) ==
  IF cats = <<>> THEN <<>>
  ELSE IF Head(cats) \in seen THEN first_seen(Tail(cats), seen)
  ELSE <<Head(cats)>> \o first_seen(Tail(cats), seen \cup {Head(cats)})

group_keys_insertion(d) == first_seen(Category(d), {})

\* df.groupby('Industry Category'): the labels present, in sorted order
group_keys(d) ==
  LET present == Range(Category(d)) IN SelectSeq(sorted_labels, LAMBDA c : c \in present)

\* Series.sum(): missing values are skipped
RECURSIVE sum(_)
sum(vals) ==
  IF vals = <<>> THEN Num(0)
  ELSE IF Head(vals).t = "nan" THEN sum(Tail(vals))
  ELSE Add(Head(vals), sum(Tail(vals)))

\* Series.mean(): missing values are skipped
mean(vals) ==
  LET present == SelectSeq(vals, LAMBDA v : v.t # "nan")
  IN IF present = <<>> THEN NaN ELSE Div(sum(present), Num(Len(present)))

\* the values of column c in the rows of group k
group_values(d, c, k) ==
  LET cat == Category(d)
      col == Col(d, c)
      rows == SelectSeq(Tuple([r \in 1..Len(cat) |-> r]), LAMBDA r : cat[r] = k)
  IN Tuple([i \in 1..Len(rows) |-> col[rows[i]]])

max_first(vals) == vals[1]

\* Series.max(): the largest value, missing values skipped
max(vals) ==
  LET present == SelectSeq(vals, LAMBDA v : v.t # "nan")
  IN present[CHOOSE i \in 1..Len(present) :
               \A j \in 1..Len(present) : ~Less(present[i], present[j])]

\* Series.idxmax(): the label of the first row holding the maximum
idxmax(keys, vals) ==
  LET cand == {i \in 1..Len(keys) : vals[i].t # "nan"
                 /\ \A j \in 1..Len(keys) : ~Less(vals[i], vals[j])}
  IN keys[CHOOSE i \in cand : \A j \in cand : i <= j]

\* industry_stats['Urban Ratio'] * 0.4 + industry_stats['Female Ratio'] * 0.6
growth_score(urban, female) ==
  Add(Scale(urban, 2, 5), Scale(female, 3, 5))

NoInsights == [computed |-> FALSE]

generate_insights(d) ==
  LET keys == group_keys(d)
      n == Len(keys)
      industry_share ==
        Tuple([i \in 1..n |-> sum(group_values(d, Total_Workers, keys[i]))])
      total == sum(industry_share)
      all_total == sum(Col(d, Total_Workers))
      main_f == Col(d, Main_Workers_Total_Females)
      marginal_f == Col(d, Marginal_Workers_Total_Females)
      female_total ==
        sum(Tuple([r \in 1..Len(d.rows) |-> Add(main_f[r], marginal_f[r])]))
      marginal_total == sum(Col(d, Marginal_Workers_Total_Persons))
      score ==
        Tuple([i \in 1..n |->
          growth_score(mean(group_values(d, Urban_Ratio, keys[i])),
                       mean(group_values(d, Female_Ratio, keys[i])))])
  IN [computed |-> TRUE,
      top_industry |-> idxmax(keys, industry_share),
      top_share |-> Scale(Div(max(industry_share), total), 100, 1),
      female_percent |-> Scale(Div(female_total, all_total), 100, 1),
      marginal_percent |-> Scale(Div(marginal_total, all_total), 100, 1),
      growth_industry |-> idxmax(keys, score)]

(***************************************************************************)
(* Uploaded files.  A file is what the two parses of it yield: each parse  *)
(* either raises (ok = FALSE) or gives a header and rows of text cells.    *)
(***************************************************************************)
ParseError == [ok |-> FALSE, columns |-> <<>>, rows |-> <<>>]

Parsed(columns, rows) == [ok |-> TRUE, columns |-> columns, rows |-> rows]

NoFile == [some |-> FALSE, comma |-> ParseError, tab |-> ParseError]

\* a tab-separated parse of comma-separated text sees one column per line
OneColumn(rows) == Parsed(<<<<"line">>>>, Tuple([r \in 1..Len(rows) |-> <<<<"x">>>>]))

\* well-formed comma-separated text
CsvFile(columns, rows) ==
  [some |-> TRUE, comma |-> Parsed(columns, rows), tab |-> OneColumn(rows)]

\* text the comma parse rejects and the tab parse accepts
TsvFile(columns, rows) ==
  [some |-> TRUE, comma |-> ParseError, tab |-> Parsed(columns, rows)]

\* text without commas, tab-separated: the comma parse sees one column
PlainTsvFile(columns, rows) ==
  [some |-> TRUE, comma |-> OneColumn(rows), tab |-> Parsed(columns, rows)]

\* text neither parse accepts
BadFile == [some |-> TRUE, comma |-> ParseError, tab |-> ParseError]

DigitChars == <<"0", "1", "2", "3", "4", "5", "6", "7", "8", "9">>

\* the text of a count 0..9
CountText(n) == <<DigitChars[n + 1]>>

Zero == <<"0">>

\* a data row under the header required_cols
Row(name, mp, gp, mf, gf, mu, gu) ==
  <<name, mp, gp, mf, gf, mu, gu, Zero, Zero, Zero, Zero>>

CropFarming == <<"C","r","o","p"," ","F","a","r","m","i","n","g">>
RetailShopCo == <<"R","e","t","a","i","l"," ","S","h","o","p"," ","C","o">>
SteelManufacturingLtd == <<"S","t","e","e","l"," ","M","a","n","u","f","a","c","t","u","r","i","n","g"," ","L","t","d">>
CoalMine == <<"C","o","a","l"," ","m","i","n","e">>
FarmFactory == <<"F","a","r","m"," ","F","a","c","t","o","r","y">>

\* the three-row example table
ExampleRows ==
  << Row(CropFarming, <<"1","0","0">>, Zero, Zero, Zero, Zero, Zero),
     Row(RetailShopCo, <<"5","0">>, Zero, Zero, Zero, Zero, Zero),
     Row(SteelManufacturingLtd, <<"2","0","0">>, Zero, Zero, Zero, Zero, Zero) >>

\* every column name padded with whitespace
Padded(columns) ==
  Tuple([i \in 1..Len(columns) |-> <<" ">> \o columns[i] \o <<" ", " ">>])

\* the columns of required_cols whose positions are in S, in that order
Keep(S) ==
  LET idx == SelectSeq(Tuple([i \in 1..Len(required_cols) |-> i]), LAMBDA i : i \in S)
  IN Tuple([i \in 1..Len(idx) |-> required_cols[idx[i]]])

\* a row cut to the columns whose positions are in S
KeepCells(row, S) ==
  LET idx == SelectSeq(Tuple([i \in 1..Len(row) |-> i]), LAMBDA i : i \in S)
  IN Tuple([i \in 1..Len(idx) |-> row[idx[i]]])

AllCols == 1..Len(required_cols)

One == <<"1">>
Two == <<"2">>
Minus1 == <<"-", "1">>
Garbage == <<"x">>
Blank == <<>>

\* the tables of the session model: the example, a header without rows, a
\* row of zeros, a row with non-numeric and empty cells, and two rows of
\* different categories with equal counts
PipelineTables ==
  { ExampleRows,
    <<>>,
    << Row(CropFarming, Zero, Zero, Zero, Zero, Zero, Zero) >>,
    << Row(CropFarming, Two, Garbage, One, Blank, One, Zero) >>,
    << Row(CoalMine, One, Zero, Zero, Zero, Zero, Zero),
       Row(CropFarming, One, Zero, Zero, Zero, Zero, Zero) >> }

\* the files a session of the model may upload
Files ==
  {CsvFile(required_cols, t) : t \in PipelineTables}
  \cup { TsvFile(required_cols, ExampleRows),
         PlainTsvFile(required_cols, ExampleRows),
         BadFile,
         CsvFile(Padded(required_cols), ExampleRows),
         CsvFile(Keep(AllCols \ {1, 11}),
                 Tuple([r \in 1..Len(ExampleRows) |->
                          KeepCells(ExampleRows[r], AllCols \ {1, 11})])) }

(***************************************************************************)
(* The session: Streamlit reruns the script (main) once per interaction.   *)
(* pc is the position within the current run; cache is st.cache_data's     *)
(* store for process_data, which outlives the runs; ui is what the run has *)
(* displayed so far; calls is the run's trace of calls; prev records every *)
(* finished run (its upload, main's table and the insights).               *)
(***************************************************************************)
Emit(w, v) == [w |-> w, v |-> v]

Init ==
  /\ pc = "ready"
  /\ uploaded = NoFile
  /\ df = EmptyDF
  /\ cache = <<>>
  /\ insights = NoInsights
  /\ ui = <<>>
  /\ calls = <<>>
  /\ runs = 0
  /\ prev = <<>>

\* main() starts, load_data finds no uploaded file (lines 13-17, 33-34)
NoUpload(limit) ==
  /\ pc = "ready" /\ runs < limit
  /\ uploaded' = NoFile
  /\ df' = EmptyDF
  /\ insights' = NoInsights
  /\ ui' = <<Emit("sidebar.info", <<>>)>>
  /\ calls' = <<"load_data">>
  /\ pc' = "main"
  /\ UNCHANGED <<cache, runs, prev>>

\* main() starts, load_data finds an uploaded file, one of F (lines 13-18)
Upload(F, limit) ==
  /\ pc = "ready" /\ runs < limit
  /\ \E f \in F : uploaded' = f
  /\ df' = EmptyDF
  /\ insights' = NoInsights
  /\ ui' = <<>>
  /\ calls' = <<"load_data">>
  /\ pc' = "read_comma"
  /\ UNCHANGED <<cache, runs, prev>>

\* pd.read_csv(uploaded_file); an exception leads to the fallback (lines 20-22)
ReadComma ==
  /\ pc = "read_comma"
  /\ calls' = Append(calls, "read_csv_comma")
  /\ IF uploaded.comma.ok
     THEN df' = read_csv(uploaded.comma) /\ pc' = "strip"
     ELSE df' = df /\ pc' = "read_tab"
  /\ UNCHANGED <<uploaded, cache, insights, ui, runs, prev>>

\* pd.read_csv(uploaded_file, delimiter='\t'); an exception reaches the outer
\* handler, which reports it and returns pd.DataFrame() (lines 24, 29-31)
ReadTab ==
  /\ pc = "read_tab"
  /\ calls' = Append(calls, "read_csv_tab")
  /\ IF uploaded.tab.ok
     THEN df' = read_csv(uploaded.tab) /\ pc' = "strip" /\ ui' = ui
     ELSE /\ df' = EmptyDF
          /\ pc' = "main"
          /\ ui' = Append(ui, Emit("sidebar.error", <<>>))
  /\ UNCHANGED <<uploaded, cache, insights, runs, prev>>

\* df.columns = df.columns.str.strip() and the success notice (lines 26-27)
StripColumns ==
  /\ pc = "strip"
  /\ df' = [df EXCEPT !.columns = strip_columns(@)]
  /\ ui' = Append(ui, Emit("sidebar.success", <<Len(df.rows), Len(df.columns)>>))
  /\ calls' = Append(calls, "strip")
  /\ pc' = "process"
  /\ UNCHANGED <<uploaded, cache, insights, runs, prev>>

\* return process_data(df) (line 28)
ProcessData ==
  /\ pc = "process"
  /\ LET out == process_data(df, cache)
     IN /\ df' = out.ret
        /\ cache' = out.cache
        /\ ui' = ui \o out.msgs
  /\ calls' = Append(calls, "process_data")
  /\ pc' = "main"
  /\ UNCHANGED <<uploaded, insights, runs, prev>>

Finished == [input |-> uploaded, df |-> df, insights |-> insights, ui |-> ui]

\* main after load_data: the empty-table guard, else the sidebar summary
\* (lines 130-138)
Main ==
  /\ pc = "main"
  /\ IF IsEmpty(df)
     THEN /\ ui' = Append(ui, Emit("st.info", <<>>))
          /\ pc' = "ready"
          /\ runs' = runs + 1
          /\ prev' = Append(prev, [Finished EXCEPT !.ui = ui'])
     ELSE /\ ui' = Append(ui, Emit("sidebar.metric", <<sum(Col(df, Total_Workers))>>))
          /\ pc' = "insights"
          /\ UNCHANGED <<runs, prev>>
  /\ UNCHANGED <<uploaded, df, cache, insights, calls>>

\* insights = generate_insights(df) (line 140)
GenerateInsights ==
  /\ pc = "insights"
  /\ insights' = generate_insights(df)
  /\ calls' = Append(calls, "generate_insights")
  /\ pc' = "render"
  /\ UNCHANGED <<uploaded, df, cache, ui, runs, prev>>

\* the metrics, the four tabs with their charts and aggregations, the
\* insight texts and the raw data viewer (lines 142-225); the run ends
Render ==
  /\ pc = "render"
  /\ ui' = ui \o << Emit("st.metric", <<insights.female_percent,
                                        insights.marginal_percent>>),
                    Emit("insights", <<insights.top_share>>) >>
  /\ calls' = calls \o << "plot_industry_distribution", "plot_gender_analysis",
                          "plot_urban_rural", "plot_growth_potential",
                          "groupby" >>
  /\ pc' = "ready"
  /\ runs' = runs + 1
  /\ prev' = Append(prev, [Finished EXCEPT !.ui = ui'])
  /\ UNCHANGED <<uploaded, df, cache, insights>>

Steps ==
  \/ ReadComma \/ ReadTab \/ StripColumns \/ ProcessData
  \/ Main \/ GenerateInsights \/ Render

Next ==
  \/ NoUpload(MaxRuns)
  \/ Upload(Files, MaxRuns)
  \/ Steps

Spec == Init /\ [][Next]_vars

(***************************************************************************)
(* Input families for the single-run specifications.  Each family also     *)
(* holds a tab-separated file and an unparsable file.                      *)
(***************************************************************************)
CommonFiles == {TsvFile(required_cols, ExampleRows), BadFile}

\* pieces of industry names: every keyword, and pieces that join into one
Fragments ==
  Range(AgricultureKeys) \cup Range(ManufacturingKeys) \cup Range(RetailKeys)
  \cup Range(PoultryKeys) \cup Range(MiningKeys)
  \cup { <<"F","A","R","M">>, <<"F","a","c","t","o","r">>, <<"y"," ">> }

\* names made of at most MaxFrags pieces
NameInputs ==
  {Concat(fs) : fs \in UNION {[1..n -> Fragments] : n \in 0..MaxFrags}}

\* one-row tables over the names (an empty name is a missing value), and a
\* two-row table whose numeric-looking name stays a string
ClassifyFiles ==
  {CsvFile(required_cols, <<Row(name, One, Zero, Zero, Zero, Zero, Zero)>>) :
     name \in NameInputs \cup {<<"1", "2">>}}
  \cup {CsvFile(required_cols,
                << Row(<<"1", "2">>, One, Zero, Zero, Zero, Zero, Zero),
                   Row(FarmFactory, One, Zero, Zero, Zero, Zero, Zero) >>)}
  \cup CommonFiles

\* cell texts: a negative number, an empty cell, non-numeric text, counts
CellTexts == {Minus1, Blank, Garbage} \cup {CountText(n) : n \in 0..MaxCount}

GarbageRow == Row(CoalMine, Garbage, Garbage, Garbage, Garbage, Garbage, Garbage)

\* one data row over the cell texts, alone or followed by a row of text
RowFiles ==
  {CsvFile(required_cols, <<Row(CropFarming, mp, gp, mf, gf, mu, Zero)>> \o more) :
     mp \in CellTexts, gp \in CellTexts, mf \in CellTexts,
     mu \in {Minus1, Garbage, One}, gf \in {Zero, One},
     more \in {<<>>, <<GarbageRow>>}}
  \cup CommonFiles

\* every subset of the required columns as a header, plain and padded
ColumnFiles ==
  {CsvFile(IF pad THEN Padded(Keep(S)) ELSE Keep(S),
           <<KeepCells(Row(CropFarming, One, Zero, Zero, Zero, Zero, Zero), S)>>) :
     S \in SUBSET AllCols, pad \in BOOLEAN}
  \cup CommonFiles

\* rows of three categories with a few worker, female and urban counts
InsightRows ==
  {Row(name, c[1], Zero, c[2], Zero, c[3], Zero) :
     name \in {CoalMine, CropFarming, RetailShopCo},
     c \in { <<Minus1, Zero, Zero>>, <<One, Zero, Zero>>, <<One, One, Zero>>,
             <<Two, One, Zero>>, <<Two, Zero, One>>, <<Two, One, One>> }}

\* tables of at most MaxRows rows, and the three-row example
InsightFiles ==
  {CsvFile(required_cols, t) :
     t \in UNION {[1..n -> InsightRows] : n \in 1..MaxRows} \cup {ExampleRows}}
  \cup CommonFiles

NextClassify ==
  \/ NoUpload(1)
  \/ Upload(ClassifyFiles, 1)
  \/ Steps

SpecClassify == Init /\ [][NextClassify]_vars

NextRows ==
  \/ NoUpload(1)
  \/ Upload(RowFiles, 1)
  \/ Steps

SpecRows == Init /\ [][NextRows]_vars

NextColumns ==
  \/ NoUpload(1)
  \/ Upload(ColumnFiles, 1)
  \/ Steps

SpecColumns == Init /\ [][NextColumns]_vars

NextInsights ==
  \/ NoUpload(1)
  \/ Upload(InsightFiles, 1)
  \/ Steps

SpecInsights == Init /\ [][NextInsights]_vars

(***************************************************************************)
(* Properties.                                                             *)
(***************************************************************************)
\* the table load_data parsed from file f
InputTable(f) == IF f.comma.ok THEN f.comma ELSE f.tab

\* the text of row r, column c of the parsed file
RawCell(f, r, c) ==
  LET t == InputTable(f)
      j == CHOOSE j \in 1..Len(t.columns) : strip(t.columns[j]) = c
  IN t.rows[r][j]

\* the number a cell counts as: its value when it is a number, else 0
CellNumber(x) == IF IsIntLiteral(x) THEN IntValue(x) ELSE 0

\* the columns of `order` that the header of f lacks, in that order
AbsentIn(f, order) ==
  LET t == InputTable(f)
  IN SelectSeq(order, LAMBDA c : \A j \in 1..Len(t.columns) : strip(t.columns[j]) # c)

Called(name) == \E i \in 1..Len(calls) : calls[i] = name

Count(name) == Cardinality({i \in 1..Len(calls) : calls[i] = name})

Shown(w) == SelectSeq(ui, LAMBDA e : e.w = w)

\* process_data has returned a table with rows in the current run
Transformed == Called("process_data") /\ pc # "process" /\ Len(df.rows) > 0

RECURSIVE IntSum(_)
IntSum(ns) == IF ns = <<>> THEN 0 ELSE Head(ns) + IntSum(Tail(ns))

RECURSIVE ValSum(_)
ValSum(vs) == IF vs = <<>> THEN Num(0) ELSE Add(Head(vs), ValSum(Tail(vs)))

\* the rows of the derived table labelled c
RowsOf(c) ==
  SelectSeq(Tuple([r \in 1..Len(df.rows) |-> r]),
            LAMBDA r : Col(df, Industry_Category)[r].s[1] = c)

Present == {Col(df, Industry_Category)[r].s[1] : r \in 1..Len(df.rows)}

\* ---------------------------------------------------------------- C1
\* the order in which the data model lists the required fields
Section3Order ==
  << Main_Workers_Total_Persons, Marginal_Workers_Total_Persons,
     Main_Workers_Total_Females, Marginal_Workers_Total_Females,
     Main_Workers_Urban_Persons, Marginal_Workers_Urban_Persons,
     Main_Workers_Rural_Persons, Marginal_Workers_Rural_Persons,
     Main_Workers_Total_Males, Marginal_Workers_Total_Males, NIC_Name >>

\* NIC_Name first, then the ten numeric fields
NameFirstOrder == <<NIC_Name>> \o SubSeq(Section3Order, 1, 10)

\* the report and the result of process_data, for the given order of the list
ValidationOutcome(order) ==
  Called("process_data") /\ pc # "process" =>
    LET m == AbsentIn(uploaded, order)
        errors == Shown("st.error")
    IN IF m # <<>>
       THEN /\ Len(errors) = 1 /\ errors[1].v = m
            /\ df.columns = <<>> /\ df.rows = <<>>
       ELSE /\ errors = <<>>
            /\ Len(df.rows) = Len(InputTable(uploaded).rows)
            /\ \A c \in {Total_Workers, Female_Ratio, Urban_Ratio, Industry_Category} :
                 \E j \in 1..Len(df.columns) : df.columns[j] = c

\* C1 as stated: process_data reports the absent required columns in the
\* order of spec section 3 (numeric fields first, NIC_Name last) and returns
\* an empty table, else transforms the table.
C1_Section3Order == ValidationOutcome(Section3Order)

\* C1 amended: process_data reports exactly the absent required columns, in
\* the order NIC_Name first and then the ten numeric fields, and returns an
\* empty table (no derived column, no row); with none absent the table is
\* transformed.
C1_MissingColumns == ValidationOutcome(NameFirstOrder)

C1_Witness ==
  /\ pc = "main"
  /\ Len(Shown("st.error")) = 1
  /\ Shown("st.error")[1].v = <<NIC_Name, Marginal_Workers_Total_Males>>
  /\ df.rows = <<>>

\* ---------------------------------------------------------------- C2
\* the classification rules in their priority order
SpecRules ==
  << [label |-> "Agriculture",
      keys |-> {<<"c","r","o","p">>, <<"a","n","i","m","a","l">>, <<"f","a","r","m">>, <<"a","g","r","i","c","u","l","t","u","r","e">>}],
     [label |-> "Manufacturing",
      keys |-> {<<"m","a","n","u","f","a","c","t","u","r">>, <<"f","a","c","t","o","r","y">>, <<"p","r","o","d","u","c","t","i","o","n">>}],
     [label |-> "Retail & Trade",
      keys |-> {<<"r","e","t","a","i","l">>, <<"t","r","a","d","e">>, <<"s","h","o","p">>}],
     [label |-> "Poultry & Livestock",
      keys |-> {<<"p","o","u","l","t","r","y">>, <<"c","a","t","t","l","e">>, <<"l","i","v","e","s","t","o","c","k">>}],
     [label |-> "Mining",
      keys |-> {<<"m","i","n","i","n","g">>, <<"q","u","a","r","r","y">>, <<"c","o","a","l">>}] >>

SixLabels ==
  {"Agriculture", "Manufacturing", "Retail & Trade", "Poultry & Livestock",
   "Mining", "Other"}

Matches(i, low) == \E k \in SpecRules[i].keys : Contains(low, k)

FirstMatch(low) ==
  LET hits == {i \in 1..Len(SpecRules) : Matches(i, low)}
  IN IF hits = {} THEN "Other"
     ELSE SpecRules[CHOOSE i \in hits : \A j \in hits : i <= j].label

\* C2: every row gets exactly one of the six labels: Other when NIC_Name is
\* not text, else the label of the first rule, in priority order, one of
\* whose keywords occurs in the lower-cased name, and Other when none does.
C2_Classification ==
  Transformed =>
    \A r \in 1..Len(df.rows) :
      LET name == Col(df, NIC_Name)[r]
          label == Col(df, Industry_Category)[r].s[1]
      IN /\ label \in SixLabels
         /\ name.t # "str" => label = "Other"
         /\ name.t = "str" => label = FirstMatch(Lower(name.s))

C2_Witness ==
  /\ Transformed
  /\ \E r \in 1..Len(df.rows) :
       LET name == Col(df, NIC_Name)[r] IN
         /\ name.t = "str"
         /\ Contains(Lower(name.s), <<"f","a","r","m">>)
         /\ Contains(Lower(name.s), <<"f","a","c","t","o","r","y">>)
         /\ Col(df, Industry_Category)[r].s[1] = "Agriculture"

\* ---------------------------------------------------------------- C3
\* Total Workers of row r is the sum of the two cells as numbers
TotalIsSum(r) ==
  Col(df, Total_Workers)[r] =
    Num(CellNumber(RawCell(uploaded, r, Main_Workers_Total_Persons))
        + CellNumber(RawCell(uploaded, r, Marginal_Workers_Total_Persons)))

\* a file with every required column never leaves process_data empty-handed
NeverAborts ==
  (Called("process_data") /\ pc # "process"
     /\ AbsentIn(uploaded, Section3Order) = <<>>)
  => /\ Len(df.rows) = Len(InputTable(uploaded).rows)
     /\ Shown("sidebar.error") = <<>>

\* C3 as stated: in every transformed row Total Workers is >= 0 and is the
\* sum of the two total-persons cells, a non-numeric cell counting as 0.
C3_TotalNonNegative ==
  /\ NeverAborts
  /\ Transformed =>
       \A r \in 1..Len(df.rows) : TotalIsSum(r) /\ GeZero(Col(df, Total_Workers)[r])

\* C3 amended: in every transformed row Total Workers is the sum of the two
\* total-persons cells, a cell that is not a number counting as 0 and never
\* aborting the transform; it is >= 0 whenever both cells count as >= 0 (a
\* negative number in a cell is kept).
C3_TotalWorkers ==
  /\ NeverAborts
  /\ Transformed =>
       \A r \in 1..Len(df.rows) :
         /\ TotalIsSum(r)
         /\ (CellNumber(RawCell(uploaded, r, Main_Workers_Total_Persons)) >= 0
             /\ CellNumber(RawCell(uploaded, r, Marginal_Workers_Total_Persons)) >= 0)
            => GeZero(Col(df, Total_Workers)[r])

C3_Witness ==
  /\ Transformed
  /\ RawCell(uploaded, 1, Main_Workers_Total_Persons) = Two
  /\ RawCell(uploaded, 1, Marginal_Workers_Total_Persons) = Garbage
  /\ Col(df, Total_Workers)[1] = Num(2)

\* ---------------------------------------------------------------- C4
\* ratio column q of row r against the sum of the columns a and b
RatioOk(r, q, a, b, signed) ==
  LET total == Col(df, Total_Workers)[r]
      part == Add(Col(df, a)[r], Col(df, b)[r])
      v == Col(df, q)[r]
  IN /\ IsFinite(v)
     /\ IsZero(total) => v = Num(0)
     /\ IsPos(total) => v.n * total.n * part.d = part.n * v.d * total.d
     /\ IF signed THEN (GeZero(total) /\ GeZero(part)) => GeZero(v)
        ELSE GeZero(v)

RatiosOk(signed) ==
  Transformed =>
    \A r \in 1..Len(df.rows) :
      /\ RatioOk(r, Female_Ratio, Main_Workers_Total_Females,
                 Marginal_Workers_Total_Females, signed)
      /\ RatioOk(r, Urban_Ratio, Main_Workers_Urban_Persons,
                 Marginal_Workers_Urban_Persons, signed)

C5_NoDataError ==
  (Called("generate_insights")
     /\ (Len(df.rows) = 0 \/ IsZero(ValSum(Col(df, Total_Workers)))))
  => /\ Shown("NoDataError") # <<>>
     /\ ~insights.computed
     /\ Shown("insights") = <<>>

\* ---------------------------------------------------------------- C6
\* no file, an unparsable file, or a header lacking a required column
LoadFails(f) ==
  \/ ~f.some
  \/ ~f.comma.ok /\ ~f.tab.ok
  \/ AbsentIn(f, Section3Order) # <<>>

Downstream ==
  {"generate_insights", "plot_industry_distribution", "plot_gender_analysis",
   "plot_urban_rural", "plot_growth_potential", "groupby"}

\* what a first run of a session computes from file f
FreshTable(f) ==
  IF ~f.some \/ (~f.comma.ok /\ ~f.tab.ok) THEN EmptyDF
  ELSE process_data_body(
         [read_csv(InputTable(f)) EXCEPT !.columns = strip_columns(@)]).ret

FreshInsights(f) ==
  IF Len(FreshTable(f).rows) = 0 THEN NoInsights
  ELSE generate_insights(FreshTable(f))

SameInsights(a, b) ==
  /\ a.computed = b.computed
  /\ a.computed => a = b

\* C6: a run without a file, or whose file fails to parse or lacks a required
\* column, yields an empty table and invokes no downstream stage; nothing is
\* retried within a run; and a later run with a valid file computes the full
\* result, as if the failure had not happened.
C6_FailureShortCircuits ==
  /\ LoadFails(uploaded) =>
       /\ \A i \in 1..Len(calls) : calls[i] \notin Downstream
       /\ ~insights.computed
       /\ pc \notin {"insights", "render"}
       /\ pc \in {"main", "ready"} => df = EmptyDF
  /\ \A name \in {"read_csv_comma", "read_csv_tab", "process_data"} : Count(name) <= 1
  /\ \A i \in 1..Len(prev) :
       /\ LoadFails(prev[i].input) =>
            prev[i].df = EmptyDF /\ ~prev[i].insights.computed
       /\ (~LoadFails(prev[i].input) /\ \E j \in 1..(i - 1) : LoadFails(prev[j].input)) =>
            /\ prev[i].df = FreshTable(prev[i].input)
            /\ SameInsights(prev[i].insights, FreshInsights(prev[i].input))

C6_Witness ==
  \E i \in 1..Len(prev) : \E j \in 1..(i - 1) :
    /\ LoadFails(prev[j].input) /\ prev[j].input.some
    /\ prev[i].insights.computed

Totals == Tuple([r \in 1..Len(df.rows) |-> Col(df, Total_Workers)[r].n])

\* the summed Total Workers of the rows labelled c
CategoryTotal(c) == LET rows == RowsOf(c) IN IntSum(Tuple([i \in 1..Len(rows) |-> Totals[rows[i]]]))

TopIndustry(bounded) ==
  (insights.computed /\ IntSum(Totals) > 0) =>
    LET top == insights.top_industry
        share == insights.top_share
    IN /\ top \in Present
       /\ \A c \in Present : CategoryTotal(c) <= CategoryTotal(top)
       /\ share = Rat(CategoryTotal(top) * 100, IntSum(Totals))
       /\ (bounded \/ \A r \in 1..Len(Totals) : Totals[r] >= 0) =>
            (IsPos(share) /\ share.n <= 100 * share.d)

IsExample == uploaded = CsvFile(required_cols, ExampleRows)

ExampleResult ==
  (insights.computed /\ IsExample) =>
    /\ Tuple([r \in 1..Len(df.rows) |-> Col(df, Industry_Category)[r].s[1]])
         = <<"Agriculture", "Retail & Trade", "Manufacturing">>
    /\ Totals = <<100, 50, 200>>
    /\ IntSum(Totals) = 350
    /\ insights.top_industry = "Manufacturing"
    /\ insights.top_share = Rat(200 * 100, 350)

\* C8 as stated: with a positive grand total, top_industry is a category of
\* maximal summed Total Workers, top_share is its sum / grand total x 100
\* and lies in (0, 100]; the three-row example gives Manufacturing, 200/350.
C8_TopShareBounded == TopIndustry(TRUE) /\ ExampleResult

\* C8 amended: with a positive grand total, top_industry is a category of
\* maximal summed Total Workers and top_share is its sum / grand total x
\* 100; top_share lies in (0, 100] when no row has a negative Total Workers;
\* the three-row example gives Manufacturing, 200/350 x 100.
C8_TopIndustry == TopIndustry(FALSE) /\ ExampleResult

C8_Witness ==
  /\ pc = "render" /\ IsExample
  /\ insights.top_industry = "Manufacturing"
  /\ insights.top_share = Rat(400, 7)

\* ---------------------------------------------------------------- C9
\* the unweighted mean of column q over the rows labelled c
CategoryMean(c, q) ==
  LET rows == RowsOf(c)
  IN Div(ValSum(Tuple([i \in 1..Len(rows) |-> Col(df, q)[rows[i]]])), Num(Len(rows)))

GrowthScore(c) ==
  Add(Scale(CategoryMean(c, Urban_Ratio), 4, 10),
      Scale(CategoryMean(c, Female_Ratio), 6, 10))

FirstRow(c) == CHOOSE r \in 1..Len(df.rows) :
  /\ Col(df, Industry_Category)[r].s[1] = c
  /\ \A q \in 1..(r - 1) : Col(df, Industry_Category)[q].s[1] # c

\* the position of a label in alphabetical order
Alphabetical(c) ==
  CASE c = "Agriculture" -> 1 [] c = "Manufacturing" -> 2 [] c = "Mining" -> 3
    [] c = "Other" -> 4 [] c = "Poultry & Livestock" -> 5 [] c = "Retail & Trade" -> 6

GrowthIndustry(sorted) ==
  insights.computed =>
    LET g == insights.growth_industry
    IN /\ g \in Present
       /\ \A c \in Present : ~Less(GrowthScore(g), GrowthScore(c))
       /\ \A c \in Present :
            GrowthScore(c) = GrowthScore(g) =>
              IF sorted THEN Alphabetical(g) <= Alphabetical(c)
              ELSE FirstRow(g) <= FirstRow(c)

\* C9 as stated: growth_industry has the maximum Growth Score (0.4 x mean
\* Urban Ratio + 0.6 x mean Female Ratio, unweighted means); among tied
\* categories the first-encountered one wins.
C9_FirstEncountered == GrowthIndustry(FALSE)

\* C9 amended: growth_industry has the maximum Growth Score (0.4 x mean
\* Urban Ratio + 0.6 x mean Female Ratio, unweighted means); among tied
\* categories the one whose label sorts first wins, whatever the row order.
C9_GrowthIndustry == GrowthIndustry(TRUE)

C9_Witness ==
  /\ insights.computed
  /\ \E c \in Present :
       /\ c # insights.growth_industry
       /\ GrowthScore(c) = GrowthScore(insights.growth_industry)
       /\ FirstRow(c) < FirstRow(insights.growth_industry)
       /\ IsPos(GrowthScore(c))

\* --------------------------------------------------------------- C10
IsStripped(name) == name = <<>> \/ (name[1] # " " /\ name[Len(name)] # " ")

\* C10: the comma parse comes first, the tab parse is attempted exactly when
\* the comma parse raised, no other parse is tried; when both raise the
\* failure is reported and the table is empty; process_data is only called
\* after a successful parse, on stripped column names.
C10_ParseOrder ==
  /\ uploaded.some =>
       /\ pc # "read_comma" => (Len(calls) >= 2 /\ calls[2] = "read_csv_comma")
       /\ Called("read_csv_tab") =>
            (~uploaded.comma.ok /\ Len(calls) >= 3 /\ calls[3] = "read_csv_tab")
       /\ (~uploaded.comma.ok /\ pc \notin {"read_comma", "read_tab"}) =>
            Called("read_csv_tab")
       /\ Count("read_csv_comma") + Count("read_csv_tab") <= 2
       /\ Count("read_csv_comma") <= 1
       /\ (~uploaded.comma.ok /\ ~uploaded.tab.ok /\ pc \in {"main", "ready"}) =>
            /\ df.columns = <<>> /\ df.rows = <<>>
            /\ Shown("sidebar.error") # <<>>
       /\ Called("process_data") =>
            /\ uploaded.comma.ok \/ uploaded.tab.ok
            /\ \E i \in 1..Len(calls) : \E j \in 1..Len(calls) :
                 /\ calls[i] \in {"read_csv_comma", "read_csv_tab"}
                 /\ calls[j] = "strip" /\ i < j
                 /\ calls[j + 1] = "process_data"
  /\ (~uploaded.comma.ok /\ ~uploaded.tab.ok) => ~Called("process_data")
  /\ \A k \in DOMAIN cache : \A j \in 1..Len(k.columns) : IsStripped(k.columns[j])

C10_Witness ==
  /\ Called("read_csv_tab") /\ Called("process_data")
  /\ pc = "render"

====
